---------------------------- MODULE Spec2Model ----------------------------
(***************************************************************************)
(* Viser AI, Core Engine 2.0: the planning-to-execution pipeline.          *)
(*                                                                         *)
(*   - AIPlanner.plan (spec2/ai_planner.py and viser_core/ai_planner.py):  *)
(*     the layered decode of the provider's text into a plan;              *)
(*   - run_async / run_with_browser_use (spec2/executor.py);               *)
(*   - the three execution coordinators with their single-flight guard:    *)
(*     web_ui_v2.py ("v2"), web_ui.py ("v1"), flask_server.py ("flask").   *)
(*                                                                         *)
(* Two specifications share the module: Spec (a server process handling    *)
(* execute_task requests and running background workers) and SpecPlan      *)
(* (AIPlanner.plan applied to provider texts drawn from a bounded set).    *)
(***************************************************************************)
EXTENDS Integers, Sequences, FiniteSets, TLC

VARIABLES
    server,      \* which server program this process is: "v2" | "v1" | "flask"
    faults,      \* failures of external collaborators so far (bounded by MaxFaults)
    isRunning,   \* _is_running / is_running / is_automation_running
    lastPageInfo,\* _last_page_info: "none" | "loading" | "done"
    playwrightOK,\* PLAYWRIGHT_OK: the playwright import succeeded
    coreEngineOK,\* CORE_ENGINE_AVAILABLE (flask_server.py only)
    runs,        \* per accepted run: the worker thread's position and locals
    replies,     \* emit('error', ...) answers of execute_task handlers to callers
    pin,         \* SpecPlan: the inputs of the planner call
    pout,        \* SpecPlan: the plans returned so far
    cin,         \* SpecCompare: configured keys and what each provider does
    cout         \* SpecCompare: the mappings returned by compare()

vars == <<server, playwrightOK, coreEngineOK, faults, isRunning, lastPageInfo, runs,
          replies, pin, pout, cin, cout>>

config    == <<server, playwrightOK, coreEngineOK>>
coordVars == <<server, playwrightOK, coreEngineOK, faults, isRunning, lastPageInfo,
               runs, replies>>
planVars  == <<pin, pout, cin, cout>>

(***************************************************************************)
(* Bounds of the model.                                                    *)
(***************************************************************************)
MaxRuns    == 2   \* accepted execute_task requests per behaviour
MaxReplies == 1   \* refused execute_task requests per behaviour
MaxFaults  == 1   \* failures of external collaborators per behaviour
MaxLen     == 4   \* provider texts of up to MaxLen tokens are enumerated
MaxSteps   == 2   \* prose-wrapped arrays of up to MaxSteps step objects
MaxCalls   == 2   \* calls of one planner method on the same inputs

Providers == {"groq", "gemini", "openai"}

Absent == "<absent>"          \* a key the Python dict does not have
UserRequest == "req"          \* the user's request text (opaque)

\* dict.get(k) used as a condition: a missing key and "" are both falsy
Truthy(x) == x # Absent /\ x # ""

(***************************************************************************)
(* Provider text.  A text is a sequence of tokens:                         *)
(*   "w"   a word of prose (no bracket, not JSON)                          *)
(*   "[" "]" ","   the JSON array punctuation                              *)
(*   "n"   a JSON scalar (a number)                                        *)
(*   "{}"  the empty JSON object                                           *)
(*   "o.." a JSON object; ObjFields gives the keys it has                  *)
(***************************************************************************)
StepObjs == {"oNav1", "oSrch2", "oClk3", "oClk1", "oVer2", "oInstr4"}
BadObjs  == {"oNoAct", "oNoStep", "oTD"}
ObjToks  == StepObjs \cup BadObjs \cup {"{}"}

\* the keys of each object token; Absent marks a missing key
ObjFields(tok) ==
    CASE tok = "oNav1"   -> [step |-> 1, action |-> "NAVIGATE", target |-> "URL",
                             value |-> "http://x", description |-> "go"]
      [] tok = "oSrch2"  -> [step |-> 2, action |-> "SEARCH", target |-> "search box",
                             value |-> "shirt", description |-> "search"]
      [] tok = "oClk3"   -> [step |-> 3, action |-> "CLICK", target |-> "#buy",
                             value |-> Absent, description |-> "click"]
      [] tok = "oClk1"   -> [step |-> 1, action |-> "CLICK", target |-> "#missing",
                             value |-> "", description |-> "click"]
      [] tok = "oVer2"   -> [step |-> 2, action |-> "VERIFY", target |-> "#ok",
                             value |-> "done", description |-> "verify"]
      [] tok = "oInstr4" -> [step |-> 4, action |-> "INSTRUCTION", target |-> "page",
                             value |-> "", description |-> "submit the form"]
      [] tok = "oNoAct"  -> [step |-> 1, action |-> Absent, target |-> "x",
                             value |-> "", description |-> "d"]
      [] tok = "oNoStep" -> [step |-> -1, action |-> "CLICK", target |-> "x",
                             value |-> "", description |-> "d"]
      [] OTHER           -> [step |-> -1, action |-> Absent, target |-> Absent,
                             value |-> Absent, description |-> Absent]

HasStepKey(tok) == tok \in StepObjs \cup {"oNoAct"}

(***************************************************************************)
(* json.loads on a token text: a recursive-descent parse of                *)
(*   value ::= "n" | object | "[" [ value { "," value } ] "]"              *)
(* The result names the top-level value's kind and, for an array, its      *)
(* elements (an object token, "n", or "arr" for a nested array).           *)
(***************************************************************************)
ParseFail == [ok |-> FALSE, next |-> 0, kind |-> "fail", elems |-> <<>>]

RECURSIVE ParseValue(_, _)
RECURSIVE ParseElems(_, _, _)

ParseValue(t, i) ==
    IF i > Len(t) THEN ParseFail
    ELSE IF t[i] = "n" THEN [ok |-> TRUE, next |-> i + 1, kind |-> "scalar", elems |-> <<"n">>]
    ELSE IF t[i] \in ObjToks THEN [ok |-> TRUE, next |-> i + 1, kind |-> "dict", elems |-> <<t[i]>>]
    ELSE IF t[i] = "[" THEN
        IF i + 1 <= Len(t) /\ t[i + 1] = "]"
        THEN [ok |-> TRUE, next |-> i + 2, kind |-> "array", elems |-> <<>>]
        ELSE ParseElems(t, i + 1, <<>>)
    ELSE ParseFail

ParseElems(t, i, acc) ==
    LET v == ParseValue(t, i) IN
    IF ~v.ok THEN ParseFail
    ELSE LET e    == IF v.kind = "array" THEN "arr" ELSE v.elems[1]
             acc2 == Append(acc, e)
         IN  IF v.next > Len(t) THEN ParseFail
             ELSE IF t[v.next] = "]"
                  THEN [ok |-> TRUE, next |-> v.next + 1, kind |-> "array", elems |-> acc2]
             ELSE IF t[v.next] = "," THEN ParseElems(t, v.next + 1, acc2)
             ELSE ParseFail

\* json.loads(text): the whole text must be one value (else JSONDecodeError)
JsonLoads(t) ==
    LET v == ParseValue(t, 1) IN
    IF v.ok /\ v.next = Len(t) + 1 THEN v ELSE ParseFail

(***************************************************************************)
(* re.search(r"\[.*\]", raw, re.DOTALL): leftmost "[", then greedy to the  *)
(* last "]" of the text.                                                   *)
(***************************************************************************)
Positions(t, c) == {i \in 1..Len(t) : t[i] = c}
SetMin(S) == CHOOSE x \in S : \A y \in S : x <= y
SetMax(S) == CHOOSE x \in S : \A y \in S : x >= y

BracketMatch(t) ==
    LET lb == Positions(t, "[")
        rb == Positions(t, "]")
    IN  IF lb # {} /\ rb # {} /\ SetMax(rb) > SetMin(lb)
        THEN [found |-> TRUE, text |-> SubSeq(t, SetMin(lb), SetMax(rb))]
        ELSE [found |-> FALSE, text |-> <<>>]

(***************************************************************************)
(* AIPlanner.plan.  The decode chain: json.loads(raw); on JSONDecodeError  *)
(* the first bracketed substring, decoded again (a second JSONDecodeError  *)
(* is raised inside the handler and leaves the try block); with no         *)
(* bracketed substring, one synthesized INSTRUCTION step.                  *)
(***************************************************************************)
FallbackElem == "fallback"

\* the value bound to `steps` before the comprehensions (lines 199-207)
Loaded(raw) ==
    LET v == JsonLoads(raw) IN
    IF v.kind # "fail" THEN [exc |-> FALSE, kind |-> v.kind, elems |-> v.elems]
    ELSE LET m == BracketMatch(raw) IN
         IF m.found
         THEN LET v2 == JsonLoads(m.text) IN
              IF v2.kind = "fail"
              THEN [exc |-> TRUE, kind |-> "fail", elems |-> <<>>]
              ELSE [exc |-> FALSE, kind |-> v2.kind, elems |-> v2.elems]
         ELSE [exc |-> FALSE, kind |-> "array", elems |-> <<FallbackElem>>]

\* `for s in steps`: a list yields its elements, a dict its keys (strings),
\* a number is not iterable (TypeError)
Iterable(l) == l.kind \in {"array", "dict"}
IterElems(l) ==
    IF l.kind = "array" THEN l.elems
    ELSE IF l.elems[1] = "{}" THEN <<>> ELSE <<"key">>

\* s["action"], s["target"], s["description"], s["step"] all succeed
HasStepKeys(e) ==
    \/ e = FallbackElem
    \/ /\ e \in ObjToks
       /\ ObjFields(e).action # Absent
       /\ ObjFields(e).target # Absent
       /\ ObjFields(e).description # Absent
       /\ HasStepKey(e)

\* one entry of plan["steps"] (lines 216-219)
StepOf(e, req) ==
    IF e = FallbackElem
    THEN [id |-> 1, action |-> "INSTRUCTION", target |-> "page", value |-> "",
          instruction |-> req, status |-> "planned"]
    ELSE LET f == ObjFields(e) IN
         [id |-> f.step, action |-> f.action, target |-> f.target,
          value |-> IF f.value = Absent THEN "" ELSE f.value,
          instruction |-> f.description, status |-> "planned"]

\* a planner that hands out the decoded steps once and nothing afterwards
StepsOfOnce(elems, req) ==
    IF pout = <<>> THEN [i \in 1..Len(elems) |-> StepOf(elems[i], req)] ELSE <<>>

StepsOf(elems, req) == [i \in 1..Len(elems) |-> StepOf(elems[i], req)]

\* the dict of the `except Exception` block (spec2: lines 229-241,
\* viser_core: lines 217-226)
ErrorPlan(variant, req, msg) ==
    [status |-> "error", error |-> msg, execution_type |-> Absent,
     task_description |-> Absent,
     steps |-> IF variant = "viser_core"
               THEN <<[id |-> 1, action |-> "INSTRUCTION", target |-> "page",
                       value |-> "", instruction |-> req, status |-> "planned"]>>
               ELSE <<>>,
     saved_to |-> Absent]

\* _save_plan is called by spec2 only; "" (falsy) when the write failed
SavedTo(variant, saveOK) ==
    IF variant = "spec2" /\ saveOK THEN "plans/plan.json" ELSE Absent

\* str(e) of what the provider call raises ("" stands for: it returned text)
QuotaError == "Error code: 429 insufficient_quota"
ApiErrors  == {QuotaError, "connection error"}
ApiResults == {""} \cup ApiErrors

\* plan() in which a failed write of the plan file is an exception of plan()
PlanSaveFatal(variant, req, apiErr, raw, saveOK) ==
    IF apiErr # "" THEN ErrorPlan(variant, req, apiErr)
    ELSE LET l == Loaded(raw) IN
         IF l.exc THEN ErrorPlan(variant, req, "JSONDecodeError")
         ELSE IF ~Iterable(l) THEN ErrorPlan(variant, req, "TypeError")
         ELSE IF \E i \in 1..Len(IterElems(l)) : ~HasStepKeys(IterElems(l)[i])
              THEN ErrorPlan(variant, req, "KeyError")
         ELSE IF variant = "spec2" /\ ~saveOK THEN ErrorPlan(variant, req, "OSError")
         ELSE [status |-> "planned", error |-> Absent, execution_type |-> Absent,
               task_description |-> Absent,
               steps |-> StepsOf(IterElems(l), req),
               saved_to |-> SavedTo(variant, saveOK)]

\* viser_core tries toon.decode(raw) first when the toon package is present;
\* on provider texts in JSON it raises or returns no list, and the code falls
\* through to the same json.loads chain, which is what is modelled here.
Plan(variant, req, apiErr, raw, saveOK) ==
    IF apiErr # "" THEN ErrorPlan(variant, req, apiErr)
    ELSE LET l == Loaded(raw) IN
         IF l.exc THEN ErrorPlan(variant, req, "JSONDecodeError")
         ELSE IF ~Iterable(l) THEN ErrorPlan(variant, req, "TypeError")
         ELSE IF \E i \in 1..Len(IterElems(l)) : ~HasStepKeys(IterElems(l)[i])
              THEN ErrorPlan(variant, req,
                             IF \A i \in 1..Len(IterElems(l)) :
                                    IterElems(l)[i] \in ObjToks \cup {FallbackElem}
                             THEN "KeyError" ELSE "TypeError")
         ELSE [status |-> "planned", error |-> Absent, execution_type |-> Absent,
               task_description |-> Absent,
               steps |-> StepsOf(IterElems(l), req),
               saved_to |-> SavedTo(variant, saveOK)]

(***************************************************************************)
(* SpecPlan: plan() applied to every provider text of a bounded set.       *)
(***************************************************************************)
ExhToks == {"w", "[", "]", ",", "n", "{}", "oClk1"}

RECURSIVE SeqsUpTo(_, _)
SeqsUpTo(S, n) ==
    IF n = 0 THEN {<<>>}
    ELSE LET shorter == SeqsUpTo(S, n - 1) IN
         shorter \cup {Append(q, x) : q \in shorter, x \in S}

\* the JSON text of an array of objects: [ o1 , o2 , ... ]
RECURSIVE Commas(_)
Commas(objs) ==
    IF Len(objs) = 0 THEN <<>>
    ELSE IF Len(objs) = 1 THEN objs
    ELSE <<Head(objs), ",">> \o Commas(Tail(objs))
ArrayText(objs) == <<"[">> \o Commas(objs) \o <<"]">>

Affixes == {<<>>, <<"w">>, <<"[", "w", "]">>}
WrappedObjs == StepObjs \cup {"oNoStep", "oNoAct"}

\* a provider answer that carries a "task_description", bare or inside prose
TaskTexts == {pre \o <<"oTD">> \o post : pre \in Affixes, post \in Affixes}

RawTexts ==
    SeqsUpTo(ExhToks, MaxLen)
    \cup {pre \o ArrayText(objs) \o post :
            pre \in Affixes, post \in Affixes, objs \in SeqsUpTo(WrappedObjs, MaxSteps)}
    \cup TaskTexts

Variants == {"spec2", "viser_core"}
PlanFns  == {"plan", "plan_for_browser_use"}

\* no server runs while the planner is exercised on its own
CoordIdle ==
    /\ server = "v2"
    /\ faults = 0
    /\ playwrightOK = TRUE
    /\ coreEngineOK = TRUE
    /\ isRunning = FALSE
    /\ lastPageInfo = "none"
    /\ runs = <<>>
    /\ replies = <<>>

\* One planner instance, one (request, target_url) pair and a stubbed
\* provider whose behaviour is fixed by the prompt: self._ask either raises
\* apiErr every time or returns the text raw every time.
PlanInit ==
    /\ pin \in [variant : Variants, fn : PlanFns, request : {UserRequest},
                target_url : {"", "http://shop"}, apiErr : {""}, raw : RawTexts]
               \cup
               [variant : Variants, fn : PlanFns, request : {UserRequest},
                target_url : {"", "http://shop"}, apiErr : ApiErrors, raw : {<<>>}]
    /\ pout = <<>>
    /\ cin = [keys |-> {}, envs |-> <<>>]
    /\ cout = <<>>
    /\ CoordIdle

\* _save_plan writes the file or fails (spec2 only; viser_core never saves)
SaveResults(variant) == IF variant = "spec2" THEN BOOLEAN ELSE {TRUE}

(***************************************************************************)
(* AIPlanner.plan_for_browser_use.  spec2 catches only JSONDecodeError     *)
(* around json.loads(raw).get(...): a decoded list or number has no .get   *)
(* (AttributeError) and leaves through the outer `except Exception`.       *)
(* viser_core catches Exception and goes on to the regex.                  *)
(***************************************************************************)
TaskText == "described task"      \* the value of oTD's "task_description"

\* re.search(r'"task_description"\s*:\s*"([^"]+)"', raw)
TaskRegexFound(raw) == \E i \in 1..Len(raw) : raw[i] = "oTD"

AgentPlan(variant, status, err, td, saveOK) ==
    [status |-> status, error |-> err, execution_type |-> "browser_use",
     task_description |-> td, steps |-> <<>>,
     saved_to |-> IF status = "planned" THEN SavedTo(variant, saveOK) ELSE Absent]

PlanForBrowserUse(variant, req, apiErr, raw, saveOK) ==
    IF apiErr # "" THEN AgentPlan(variant, "error", apiErr, req, saveOK)
    ELSE LET v == JsonLoads(raw) IN
         IF v.kind = "dict"
         THEN AgentPlan(variant, "planned", Absent,
                        IF v.elems[1] = "oTD" THEN TaskText ELSE req, saveOK)
         ELSE IF v.kind = "fail" \/ variant = "viser_core"
         THEN AgentPlan(variant, "planned", Absent,
                        IF TaskRegexFound(raw) THEN TaskText ELSE req, saveOK)
         ELSE AgentPlan(variant, "error", "AttributeError", req, saveOK)

\* planner.plan(request, target_url), called up to MaxCalls times
CallPlan ==
    /\ pin.fn = "plan"
    /\ Len(pout) < MaxCalls
    /\ \E saveOK \in SaveResults(pin.variant) :
         pout' = Append(pout,
                    Plan(pin.variant, pin.request, pin.apiErr, pin.raw, saveOK))
    /\ UNCHANGED <<pin, cin, cout, coordVars>>

\* planner.plan_for_browser_use(request, target_url)
CallPlanForBrowserUse ==
    /\ pin.fn = "plan_for_browser_use"
    /\ Len(pout) < MaxCalls
    /\ \E saveOK \in SaveResults(pin.variant) :
         pout' = Append(pout,
                    PlanForBrowserUse(pin.variant, pin.request, pin.apiErr,
                                      pin.raw, saveOK))
    /\ UNCHANGED <<pin, cin, cout, coordVars>>

PlanNext == CallPlan \/ CallPlanForBrowserUse

SpecPlan == PlanInit /\ [][PlanNext]_vars

(***************************************************************************)
(* C10 (as claimed): whenever the provider call returned text, the plan    *)
(* returned by AIPlanner.plan has at least one step.                       *)
(***************************************************************************)
C10_PlanHasAStep ==
    \A i \in 1..Len(pout) :
        (pin.fn = "plan" /\ pin.apiErr = "") => Len(pout[i].steps) >= 1

(***************************************************************************)
(* C11 (as claimed): whenever the provider call returned text, the plan    *)
(* returned by plan() and by plan_for_browser_use() has status "planned"   *)
(* and no error, whatever the shape of the text.                           *)
(***************************************************************************)
C11_TextNeverErrors ==
    \A i \in 1..Len(pout) :
        pin.apiErr = "" => pout[i].status = "planned" /\ ~Truthy(pout[i].error)

(***************************************************************************)
(* C12 (as claimed): every plan with status "error" carries a usable       *)
(* payload: plan() returns the raw request as a single INSTRUCTION step    *)
(* on target "page", plan_for_browser_use() returns the request as its     *)
(* task_description.                                                       *)
(***************************************************************************)
C12_ErrorPlanUsable ==
    \A i \in 1..Len(pout) :
        pout[i].status = "error" =>
            IF pin.fn = "plan"
            THEN /\ Len(pout[i].steps) = 1
                 /\ pout[i].steps[1].action = "INSTRUCTION"
                 /\ pout[i].steps[1].target = "page"
                 /\ pout[i].steps[1].instruction = pin.request
            ELSE pout[i].task_description = pin.request

(***************************************************************************)
(* C13 (as claimed): when the provider text is a valid JSON array of step  *)
(* objects with prose before or after it, prose that may itself contain    *)
(* "[" or "]", plan() returns status "planned" with exactly the steps of   *)
(* that array.                                                             *)
(***************************************************************************)
C13_ProseWrappedArray ==
    \A pre \in Affixes, post \in Affixes, objs \in SeqsUpTo(StepObjs, MaxSteps) :
        ( /\ pin.fn = "plan"
          /\ pin.apiErr = ""
          /\ Len(objs) >= 1
          /\ pre \o post # <<>>
          /\ pin.raw = pre \o ArrayText(objs) \o post )
        => \A i \in 1..Len(pout) :
              /\ pout[i].status = "planned"
              /\ pout[i].steps = StepsOf(objs, pin.request)

(***************************************************************************)
(* C14 (as claimed): a plan returned by plan() for a non-empty target_url  *)
(* contains no NAVIGATE step, even when the provider's array has one.      *)
(***************************************************************************)
C14_NoNavigateWithTargetUrl ==
    \A i \in 1..Len(pout) :
        (pin.fn = "plan" /\ pin.target_url # "")
        => \A k \in 1..Len(pout[i].steps) : pout[i].steps[k].action # "NAVIGATE"

(***************************************************************************)
(* C15: with a provider whose answer is a function of the prompt, any two  *)
(* plan() calls on the same (request, target_url) return the same status   *)
(* and the same sequence of step id, action, target and value; only the    *)
(* saved file may differ.                                                  *)
(***************************************************************************)
SameSteps(a, b) ==
    /\ Len(a) = Len(b)
    /\ \A k \in 1..Len(a) :
          /\ a[k].id = b[k].id
          /\ a[k].action = b[k].action
          /\ a[k].target = b[k].target
          /\ a[k].value = b[k].value

C21_AgentPlanDecode ==
    \A i \in 1..Len(pout) :
        pin.fn = "plan_for_browser_use" =>
            /\ pout[i].execution_type = "browser_use"
            /\ Truthy(pout[i].task_description)
            /\ (pin.apiErr = "" /\ ~TaskRegexFound(pin.raw)) =>
                  /\ pout[i].task_description = pin.request
                  /\ pout[i].status = "planned"

(***************************************************************************)
(* C25 (as claimed): in every plan returned by plan() the step ids are     *)
(* strictly increasing in list order, also when the provider's "step"      *)
(* numbers repeat or are out of order.                                     *)
(***************************************************************************)
C25_StepIdsIncreasing ==
    \A i \in 1..Len(pout) :
        pin.fn = "plan" =>
            \A k \in 1..(Len(pout[i].steps) - 1) :
                pout[i].steps[k].id < pout[i].steps[k + 1].id

\* AIPlanner.__init__: raises without a key, or for a provider it does not know
ConstructOK(variant, provider, hasKey) ==
    /\ hasKey
    /\ variant = "viser_core" => provider \in {"groq", "gemini"}

(***************************************************************************)
(* compare(user_request, target_url): spec2/ai_planner.py 243-272 and      *)
(* viser_core/ai_planner.py 228-235.  cin.keys is the set of providers     *)
(* with a configured key; cin.envs[p] says what provider p does when it    *)
(* is tried: whether its SDK client can be built, what its call raises     *)
(* (or ""), and the text it returns.                                       *)
(***************************************************************************)
CmpEnvs ==
    {[sdkOK |-> TRUE,  apiErr |-> "", raw |-> ArrayText(<<"oSrch2", "oClk3">>)],
     [sdkOK |-> TRUE,  apiErr |-> "", raw |-> <<"n">>],
     [sdkOK |-> TRUE,  apiErr |-> "connection error", raw |-> <<>>],
     [sdkOK |-> FALSE, apiErr |-> "", raw |-> <<>>]}

\* spec2, lines 247-252, without the default of line 251-252
CandidatesNoDefault(variant, keys) ==
    IF variant = "spec2" THEN keys ELSE {"groq", "gemini"}

\* the providers compare() tries: spec2, lines 247-252 (those with a key,
\* or groq alone); viser_core, line 230 (always groq and gemini)
Candidates(variant, keys) ==
    IF variant = "spec2"
    THEN IF keys = {} THEN {"groq"} ELSE keys
    ELSE {"groq", "gemini"}

\* the value stored by the except block: spec2 builds an error plan (lines
\* 259-270), viser_core stores {"error": str(e)} and nothing else (line 234)
CompareError(variant, msg) ==
    [status |-> IF variant = "spec2" THEN "error" ELSE Absent,
     error |-> msg, execution_type |-> Absent, task_description |-> Absent,
     steps |-> <<>>, saved_to |-> Absent]

\* AIPlanner(p) inside compare's try block
CompareConstructOK(variant, p, keys, env) ==
    ConstructOK(variant, p, p \in keys) /\ env.sdkOK

\* the loop body for one provider (spec2 254-270, viser_core 230-234)
CompareEntry(variant, p, keys, env, req, saveOK) ==
    IF ~CompareConstructOK(variant, p, keys, env)
    THEN CompareError(variant, "RuntimeError")
    ELSE Plan(variant, req, env.apiErr, env.raw, saveOK)

Compare(variant, keys, envs, req, saves) ==
    [p \in Candidates(variant, keys) |->
        CompareEntry(variant, p, keys, envs[p], req, saves[p])]

CompareInit ==
    /\ cin \in [variant : Variants, keys : SUBSET Providers,
                envs : [Providers -> CmpEnvs]]
    /\ cout = <<>>
    /\ pin = [variant |-> "spec2", fn |-> "plan", request |-> UserRequest,
              target_url |-> "", apiErr |-> "", raw |-> <<>>]
    /\ pout = <<>>
    /\ CoordIdle

\* results = compare(request): each saved plan file is written or not
CallCompare ==
    /\ cout = <<>>
    /\ \E saves \in [Providers -> SaveResults(cin.variant)] :
         cout' = <<Compare(cin.variant, cin.keys, cin.envs, UserRequest, saves)>>
    /\ UNCHANGED <<pin, pout, cin, coordVars>>

CompareNext == CallCompare

SpecCompare == CompareInit /\ [][CompareNext]_vars

(***************************************************************************)
(* C16: the mapping returned by spec2's compare() has exactly the          *)
(* attempted providers as its keys: every provider with a configured key,  *)
(* or groq alone when no key is configured; it is never empty.             *)
(***************************************************************************)
C16_CompareComplete ==
    \A i \in 1..Len(cout) :
        cin.variant = "spec2" =>
            /\ DOMAIN cout[i] = (IF cin.keys = {} THEN {"groq"} ELSE cin.keys)
            /\ DOMAIN cout[i] # {}

\* no key is configured and compare() answers with groq's error entry
C16_Witness ==
    /\ cout # <<>>
    /\ cin.variant = "spec2"
    /\ cin.keys = {}
    /\ cout[1]["groq"].status = "error"

(***************************************************************************)
(* C17 (as claimed): in the mapping returned by compare(), the entry of a  *)
(* provider whose planner could not be built or whose planning failed is   *)
(* a plan with status "error" and a non-empty error, and the entry of a    *)
(* provider that planned is the plan it returns on its own.                *)
(***************************************************************************)
OwnPlans(variant, env) ==
    {Plan(variant, UserRequest, env.apiErr, env.raw, s) : s \in SaveResults(variant)}

C17_FailureIsolation ==
    \A i \in 1..Len(cout) : \A p \in DOMAIN cout[i] :
        IF /\ CompareConstructOK(cin.variant, p, cin.keys, cin.envs[p])
           /\ \E own \in OwnPlans(cin.variant, cin.envs[p]) : own.status = "planned"
        THEN cout[i][p] \in OwnPlans(cin.variant, cin.envs[p])
        ELSE cout[i][p].status = "error" /\ Truthy(cout[i][p].error)

(***************************************************************************)
(* Events pushed to the sink (socketio.emit / ui_logger.log).              *)
(***************************************************************************)
Ev(kind) == [kind |-> kind, tag |-> "", msg |-> "", n1 |-> 0, n2 |-> 0]
Log(level, msg) == [kind |-> "log", tag |-> level, msg |-> msg, n1 |-> 0, n2 |-> 0]
StepUpdate(id, status) ==
    [kind |-> "step_update", tag |-> status, msg |-> "", n1 |-> id, n2 |-> 0]
\* task_success {steps_completed}; task_warning {steps_completed, steps_failed}
TaskSuccess(done) == [kind |-> "task_success", tag |-> "", msg |-> "", n1 |-> done, n2 |-> 0]
TaskWarning(done, failed) ==
    [kind |-> "task_warning", tag |-> "", msg |-> "", n1 |-> done, n2 |-> failed]

(***************************************************************************)
(* _plan_bg of web_ui_v2.py (lines 136-150): what the caller of plan()     *)
(* reports about the plan it got.                                          *)
(***************************************************************************)
PlanBgEvents(plan) ==
    IF Truthy(plan.error)
    THEN <<Log("ERROR", "planning_failed"), Ev("error")>>
    ELSE <<Log("SUCCESS", "plan_ready"),
           IF Truthy(plan.saved_to) THEN Log("INFO", "plan_saved")
           ELSE Log("WARNING", "plan_not_saved"),
           Ev("plan_ready")>>

(***************************************************************************)
(* C26: whether the plan file could be written changes nothing of the      *)
(* plan but saved_to: calls on the same provider answer return the same    *)
(* status, error, steps and task_description; a planned plan that was not  *)
(* saved has no saved_to, and its caller reports a WARNING and no error.   *)
(***************************************************************************)
SaveBlind(plan) == [plan EXCEPT !.saved_to = Absent]

C26_BestEffortPersistence ==
    \A i \in 1..Len(pout), j \in 1..Len(pout) :
        /\ SaveBlind(pout[i]) = SaveBlind(pout[j])
        /\ (pin.fn = "plan" /\ pout[i].status = "planned" /\ ~Truthy(pout[i].saved_to)) =>
              /\ \A e \in 1..Len(PlanBgEvents(pout[i])) :
                    /\ PlanBgEvents(pout[i])[e].kind # "error"
                    /\ PlanBgEvents(pout[i])[e].tag # "ERROR"
              /\ \E e \in 1..Len(PlanBgEvents(pout[i])) :
                    PlanBgEvents(pout[i])[e] = Log("WARNING", "plan_not_saved")

\* the first call could not write its file, the second could
C26_Witness ==
    /\ pin.fn = "plan"
    /\ pin.variant = "spec2"
    /\ Len(pout) = 2
    /\ pout[1].status = "planned"
    /\ Len(pout[1].steps) >= 1
    /\ ~Truthy(pout[1].saved_to)
    /\ Truthy(pout[2].saved_to)

NoPlan ==
    [status |-> "none", error |-> Absent, execution_type |-> Absent,
     task_description |-> Absent, steps |-> <<>>, saved_to |-> Absent]

\* the arguments and locals of one background worker
\* requested: data.get('provider') as the client sent it; provider: the
\* argument the worker was started with; tried: one entry per planner.plan /
\* plan_for_browser_use call (the planner's provider and the plan's error);
\* altKey: os.getenv('GROQ_API_KEY') was read and was set; closeCalls:
\* calls of browser.close(); driver: how playwright.stop() ended
NewRun(pc, requested, provider, evs) ==
    [pc |-> pc, requested |-> requested, provider |-> provider, plan |-> NoPlan,
     events |-> evs, exc |-> FALSE, stepIdx |-> 0, browser |-> "none",
     attempted |-> <<>>, tried |-> <<>>, altKey |-> FALSE,
     closeCalls |-> 0, driver |-> "none",
     planCalls |-> 0, agentCalls |-> 0, stepCalls |-> 0]

RunIds == 1..Len(runs)
Emit(run, evs) == [run EXCEPT !.events = run.events \o evs]

(***************************************************************************)
(* The execute_task handlers: on_execute (web_ui_v2.py 178-203),           *)
(* handle_execute_task (web_ui.py 153-171, flask_server.py 286-310).       *)
(***************************************************************************)

\* HandlerVerdict without the guard check
HandlerVerdictUnguarded(srv, running, urlKind, promptOK, engineOK) ==
    IF urlKind = "empty" \/ ~promptOK THEN "missing_fields"
    ELSE IF srv = "v2" /\ urlKind = "invalid" THEN "invalid_url"
    ELSE IF srv = "flask" /\ ~engineOK THEN "engine_unavailable"
    ELSE "accept"

\* what the handler decides, in the order of its checks
HandlerVerdict(srv, running, urlKind, promptOK, engineOK) ==
    IF running THEN "already_running"
    ELSE IF urlKind = "empty" \/ ~promptOK THEN "missing_fields"
    ELSE IF srv = "v2" /\ urlKind = "invalid" THEN "invalid_url"
    ELSE IF srv = "flask" /\ ~engineOK THEN "engine_unavailable"
    ELSE "accept"

\* flask_server.py 298-299: gemini requests are planned with groq
EffProvider(srv, provider) ==
    IF srv = "flask" /\ provider = "gemini" THEN "groq" ELSE provider

\* web_ui_v2 emits task_started in the handler, before the worker exists
HandlerEvents(srv) == IF srv = "v2" THEN <<Ev("task_started")>> ELSE <<>>

ExecuteTask ==
    /\ \E provider \in Providers, urlKind \in {"empty", "invalid", "http"},
          promptOK \in BOOLEAN :
         LET verdict == HandlerVerdict(server, isRunning, urlKind, promptOK, coreEngineOK) IN
         IF verdict = "accept"
         THEN /\ Len(runs) < MaxRuns
              /\ runs' = Append(runs, NewRun("queued", provider,
                                             EffProvider(server, provider),
                                             HandlerEvents(server)))
              /\ UNCHANGED replies
         ELSE /\ Len(replies) < MaxReplies
              /\ replies' = Append(replies, verdict)
              /\ UNCHANGED runs
    /\ UNCHANGED <<config, faults, isRunning, lastPageInfo, planVars>>

(***************************************************************************)
(* The worker's first statements: _run_task_bg (web_ui_v2.py 208-209),     *)
(* run_ai_task (web_ui.py 177-179), run_core_engine_task                   *)
(* (flask_server.py 314-319).                                              *)
(***************************************************************************)
StartEvents(srv) ==
    CASE srv = "v2"    -> <<>>
      [] srv = "v1"    -> <<Ev("task_started")>>
      [] srv = "flask" -> <<Log("INFO", "starting"), Log("INFO", "url"), Log("INFO", "task")>>

WorkerStart(r) ==
    /\ runs[r].pc = "queued"
    /\ isRunning' = TRUE
    /\ runs' = [runs EXCEPT ![r] = [Emit(@, StartEvents(server)) EXCEPT !.pc = "plan"]]
    /\ UNCHANGED <<config, faults, lastPageInfo, replies, planVars>>

(***************************************************************************)
(* The worker's `finally`: clear the flag, then emit task_completed        *)
(* (web_ui_v2.py 215-217, web_ui.py 187-189, flask_server.py 378-380).     *)
(***************************************************************************)

\* FinallyClear leaving the flag as it is
FinallyKeep(r) ==
    /\ runs[r].pc = "finally"
    /\ isRunning' = isRunning
    /\ runs' = [runs EXCEPT ![r].pc = "completing"]
    /\ UNCHANGED <<config, faults, lastPageInfo, replies, planVars>>

FinallyClear(r) ==
    /\ runs[r].pc = "finally"
    /\ isRunning' = FALSE
    /\ runs' = [runs EXCEPT ![r].pc = "completing"]
    /\ UNCHANGED <<config, faults, lastPageInfo, replies, planVars>>

FinallyEmit(r) ==
    /\ runs[r].pc = "completing"
    /\ runs' = [runs EXCEPT ![r] = [Emit(@, <<Ev("task_completed")>>) EXCEPT !.pc = "done"]]
    /\ UNCHANGED <<config, faults, isRunning, lastPageInfo, replies, planVars>>

(***************************************************************************)
(* The environment.  Every call of an external collaborator (credential    *)
(* source, provider, plan store, agent runtime, browser driver) succeeds   *)
(* or fails; a behaviour holds at most MaxFaults failures.                 *)
(***************************************************************************)
Cost(failed) == IF failed THEN 1 ELSE 0
Affordable(cost) == faults + cost <= MaxFaults

(***************************************************************************)
(* Planning inside the worker: _run_task_async (web_ui_v2.py 225-262),     *)
(* execute_ai_task_async (web_ui.py 196-241), run_core_engine_task         *)
(* (flask_server.py 331-357).                                              *)
(***************************************************************************)
Variant(srv) == IF srv = "v1" THEN "viser_core" ELSE "spec2"

\* web_ui_v2 / web_ui: groq plans for the agent, the others plan steps;
\* flask_server always plans for the agent
PlansForAgent(srv, provider) == srv = "flask" \/ provider = "groq"

\* the provider texts the workers' planner calls may receive: the text asked
\* for (the first of each pair) and a text of another shape
AgentRaws == {<<"oTD">>, <<"[", "]">>}
StepRaws  == {ArrayText(<<"oClk1", "oVer2">>), <<"[", "w", "]">>}
NominalRaw(raw) == raw \in {<<"oTD">>, ArrayText(<<"oClk1", "oVer2">>)}

\* one planner call's environment: what the provider call raises (or ""),
\* the text it returns, whether the plan file could be written
PlanEnvs(forAgent) ==
    [apiErr : ApiResults, raw : IF forAgent THEN AgentRaws ELSE StepRaws, saveOK : BOOLEAN]
PlanEnvCost(variant, e) ==
    IF e.apiErr # "" THEN 1
    ELSE Cost(variant = "spec2" /\ ~e.saveOK)
\* a call that raises reads neither the text nor the plan store
PlanEnvUsed(variant, e) ==
    /\ e.apiErr # "" => NominalRaw(e.raw) /\ e.saveOK
    /\ variant = "viser_core" => e.saveOK

PlannerCall(srv, provider, e) ==
    IF PlansForAgent(srv, provider)
    THEN PlanForBrowserUse(Variant(srv), UserRequest, e.apiErr, e.raw, e.saveOK)
    ELSE Plan(Variant(srv), UserRequest, e.apiErr, e.raw, e.saveOK)

\* '429' in error or 'insufficient_quota' in error.lower()
IsQuota(err) == err = QuotaError

\* RetryWithGroq for any planning error of any provider
RetryOnAnyError(srv, provider, plan, groqKey) ==
    /\ srv = "flask"
    /\ Truthy(plan.error)
    /\ groqKey

\* flask_server.py 339: retry with groq
RetryWithGroq(srv, provider, plan, groqKey) ==
    /\ srv = "flask"
    /\ Truthy(plan.error) /\ IsQuota(plan.error)
    /\ provider = "openai"
    /\ groqKey


\* one planner call as the worker saw it
Tried(provider, plan) == [provider |-> provider, error |-> plan.error]

\* DispatchPc with the comparison inverted
DispatchPcInverted(plan) == IF plan.execution_type # "browser_use" THEN "agent" ELSE "steps"

\* the plan handed to the dispatch: the executor is chosen by execution_type
DispatchPc(plan) == IF plan.execution_type = "browser_use" THEN "agent" ELSE "steps"

PreLogs(srv) ==
    CASE srv = "v2"    -> <<Log("INFO", "starting"), Log("INFO", "url"), Log("INFO", "task"),
                            Log("INFO", "provider"), Log("INFO", "intent"),
                            Log("INFO", "planning")>>
      [] srv = "v1"    -> <<Log("INFO", "starting"), Log("INFO", "url"), Log("INFO", "task"),
                            Log("INFO", "provider"), Log("INFO", "intent"),
                            Log("INFO", "planning")>>
      [] srv = "flask" -> <<Log("INFO", "analyzing"), Log("INFO", "intent"),
                            Log("INFO", "planning")>>

\* the plan's error is logged and no event tells the client
PlanErrorEventsLogOnly(srv) == <<Log("ERROR", "planning_failed")>>

\* `if plan.get('error')`: log, (v2: task_error; flask: error), return
PlanErrorEvents(srv) ==
    CASE srv = "v2"    -> <<Log("ERROR", "planning_failed"), Ev("task_error")>>
      [] srv = "v1"    -> <<Log("ERROR", "planning_failed")>>
      [] srv = "flask" -> <<Log("ERROR", "planning_failed"), Ev("error")>>

PlannedEvents(srv, plan) ==
    LET agent == plan.execution_type = "browser_use"
        ready == Log("SUCCESS", IF agent THEN "agent_task" ELSE "plan_ready")
        go    == Log("INFO", IF agent THEN "executing_agent" ELSE "executing_steps")
    IN CASE srv = "v2" ->
              (IF Truthy(plan.saved_to) THEN <<Log("INFO", "plan_saved")>> ELSE <<>>)
              \o <<ready, Ev("plan_ready"), Ev("page_info"), go>>
         [] srv = "v1" -> <<ready, Ev("plan_ready"), Ev("page_info"), go>>
         [] srv = "flask" -> <<Ev("plan_ready"), ready, go>>

\* AIPlanner(provider) raised: the worker's `except Exception` is next
ConstructFailed(srv, run) ==
    [Emit(run, PreLogs(srv)) EXCEPT !.exc = TRUE, !.pc = "except"]

\* The worker's locals once it holds the plan (after `calls` planner calls):
\* `if plan.get('error')` ends the run, otherwise the plan goes to the dispatch
AfterPlan(srv, run, plan, tried, altKey) ==
    LET calls == Len(tried)
        subst == IF calls = 2 THEN <<Log("INFO", "retry_with_groq")>> ELSE <<>> IN
    IF Truthy(plan.error)
    THEN [Emit(run, PreLogs(srv) \o subst \o PlanErrorEvents(srv))
            EXCEPT !.plan = plan, !.planCalls = calls, !.tried = tried,
                   !.altKey = altKey, !.pc = "finally"]
    ELSE [Emit(run, PreLogs(srv) \o subst \o PlannedEvents(srv, plan))
            EXCEPT !.plan = plan, !.planCalls = calls, !.tried = tried,
                   !.altKey = altKey, !.pc = DispatchPc(plan)]

\* what one planner call may return, with the failures it took
PlannerCalls(srv, provider) ==
    {[plan |-> PlannerCall(srv, provider, e), cost |-> PlanEnvCost(Variant(srv), e)] :
        e \in {x \in PlanEnvs(PlansForAgent(srv, provider)) : PlanEnvUsed(Variant(srv), x)}}

\* web_ui_v2.py 262 / web_ui.py 241: _last_page_info = page_info
Planned(r, plan, tried, altKey, cost) ==
    /\ Affordable(cost)
    /\ faults' = faults + cost
    /\ runs' = [runs EXCEPT ![r] = AfterPlan(server, @, plan, tried, altKey)]
    /\ lastPageInfo' = IF ~Truthy(plan.error) /\ server # "flask"
                       THEN "loading" ELSE lastPageInfo

PlanPhase(r) ==
    /\ runs[r].pc = "plan"
    /\ \E hasKey \in BOOLEAN :
         IF ~ConstructOK(Variant(server), runs[r].provider, hasKey)
         THEN /\ Affordable(Cost(~hasKey))
              /\ faults' = faults + Cost(~hasKey)
              /\ runs' = [runs EXCEPT ![r] = ConstructFailed(server, @)]
              /\ UNCHANGED lastPageInfo
         ELSE \E c1 \in PlannerCalls(server, runs[r].provider) :
                \E groqKey \in IF RetryWithGroq(server, runs[r].provider, c1.plan, TRUE)
                               THEN BOOLEAN ELSE {FALSE} :
                  IF groqKey
                  THEN \E c2 \in PlannerCalls(server, "groq") :
                          Planned(r, c2.plan,
                                  <<Tried(runs[r].provider, c1.plan),
                                    Tried("groq", c2.plan)>>,
                                  groqKey, c1.cost + c2.cost)
                  ELSE Planned(r, c1.plan, <<Tried(runs[r].provider, c1.plan)>>,
                               groqKey, c1.cost)
    /\ UNCHANGED <<config, isRunning, replies, planVars>>

(***************************************************************************)
(* The dry run of flask_server.py: handle_plan_task (397-414) starts       *)
(* _plan_task_bg (417-456), which plans steps and executes nothing.  It    *)
(* neither reads nor writes is_automation_running.                         *)
(***************************************************************************)
PlanTaskVerdict(promptOK, engineOK) ==
    IF ~promptOK THEN "missing_prompt"
    ELSE IF ~engineOK THEN "engine_unavailable"
    ELSE "accept"

\* lines 423-429, the first statements of _plan_task_bg; hasUrl: the url
\* the client sent is not empty (it is read nowhere else)
DryRunLogs(hasUrl) ==
    <<Log("INFO", "planning")>>
    \o (IF hasUrl THEN <<Log("INFO", "url")>> ELSE <<>>)
    \o <<Log("INFO", "provider"), Log("INFO", "intent")>>

PlanTask ==
    /\ server = "flask"
    /\ \E provider \in Providers, promptOK \in BOOLEAN :
         LET verdict == PlanTaskVerdict(promptOK, coreEngineOK) IN
         IF verdict = "accept"
         THEN /\ Len(runs) < MaxRuns
              /\ runs' = Append(runs, NewRun("plan_queued", provider,
                                             EffProvider(server, provider), <<>>))
              /\ UNCHANGED replies
         ELSE /\ Len(replies) < MaxReplies
              /\ replies' = Append(replies, verdict)
              /\ UNCHANGED runs
    /\ UNCHANGED <<config, faults, isRunning, lastPageInfo, planVars>>


\* lines 439-449: error -> log and 'error'; else the plan goes out as plan_ready
DryRunEvents(plan) ==
    IF Truthy(plan.error)
    THEN <<Log("ERROR", "planning_failed"), Ev("error")>>
    ELSE <<Log("SUCCESS", "plan_ready")>>
         \o (IF Truthy(plan.saved_to) THEN <<Log("INFO", "plan_saved")>> ELSE <<>>)
         \o <<Ev("plan_ready")>>

\* AIPlanner(provider) raised: lines 451-453
DryRunCrashed(run, hasUrl) ==
    [Emit(run, DryRunLogs(hasUrl) \o <<Log("ERROR", "planning_error"), Ev("error")>>)
        EXCEPT !.exc = TRUE, !.pc = "plan_done"]

DryRunResult(run, hasUrl, plan, tried, altKey) ==
    LET subst == IF Len(tried) = 2 THEN <<Log("INFO", "retry_with_groq")>> ELSE <<>> IN
    [Emit(run, DryRunLogs(hasUrl) \o subst \o DryRunEvents(plan))
        EXCEPT !.plan = plan, !.planCalls = Len(tried), !.tried = tried,
               !.altKey = altKey, !.pc = "plan_done"]

\* planner.plan(prompt, url) of the dry run, with the failures it took
DryRunCalls ==
    {[plan |-> Plan("spec2", UserRequest, e.apiErr, e.raw, e.saveOK),
      cost |-> PlanEnvCost("spec2", e)] :
        e \in {x \in PlanEnvs(FALSE) : PlanEnvUsed("spec2", x)}}

DryRunDone(r, hasUrl, plan, tried, altKey, cost) ==
    /\ Affordable(cost)
    /\ faults' = faults + cost
    /\ runs' = [runs EXCEPT ![r] = DryRunResult(@, hasUrl, plan, tried, altKey)]

PlanTaskBg(r) ==
    /\ runs[r].pc = "plan_queued"
    /\ \E hasKey \in BOOLEAN, hasUrl \in BOOLEAN :
         IF ~ConstructOK("spec2", runs[r].provider, hasKey)
         THEN /\ Affordable(1)
              /\ faults' = faults + 1
              /\ runs' = [runs EXCEPT ![r] = DryRunCrashed(@, hasUrl)]
         ELSE \E c1 \in DryRunCalls :
                \E groqKey \in IF RetryWithGroq(server, runs[r].provider, c1.plan, TRUE)
                               THEN BOOLEAN ELSE {FALSE} :
                  IF groqKey
                  THEN \E c2 \in DryRunCalls :
                          DryRunDone(r, hasUrl, c2.plan,
                                     <<Tried(runs[r].provider, c1.plan),
                                       Tried("groq", c2.plan)>>,
                                     groqKey, c1.cost + c2.cost)
                  ELSE DryRunDone(r, hasUrl, c1.plan, <<Tried(runs[r].provider, c1.plan)>>,
                                  groqKey, c1.cost)
    /\ UNCHANGED <<config, isRunning, lastPageInfo, replies, planVars>>

(***************************************************************************)
(* run_with_browser_use (spec2/executor.py 18-97).                         *)
(***************************************************************************)
ExitPc(exc) == IF exc THEN "except" ELSE "outcome"

AgentCloseEvents(closeOK) ==
    IF closeOK THEN <<Log("INFO", "agent_closed")>>
    ELSE <<Log("WARNING", "agent_close_failed")>>

\* AgentResult whose `finally` lets an exception of agent.close() out
AgentResultCloseRaises(run, what, closeOK) ==
    LET called == [run EXCEPT !.agentCalls = @ + 1]
        open   == <<Log("INFO", "opening"), Log("INFO", "task")>>
    IN
    CASE what = "not_installed" ->
            [Emit(called, <<Log("ERROR", "browser_use_missing")>>) EXCEPT !.pc = ExitPc(FALSE)]
      [] what = "no_key" ->
            [Emit(called, <<Log("ERROR", "openai_key_missing")>>) EXCEPT !.pc = ExitPc(FALSE)]
      [] what = "construct_fails" ->
            [Emit(called, open \o <<Log("ERROR", "agent_failed")>>)
               EXCEPT !.exc = TRUE, !.pc = ExitPc(TRUE)]
      [] what = "run_fails" ->
            [Emit(called, open \o <<Log("SUCCESS", "agent_initialized"),
                                    Log("ERROR", "agent_failed")>>
                          \o (IF closeOK THEN <<Log("INFO", "agent_closed")>> ELSE <<>>))
               EXCEPT !.exc = TRUE, !.pc = ExitPc(TRUE)]
      [] what = "ok" ->
            [Emit(called, open \o <<Log("SUCCESS", "agent_initialized"),
                                    Log("SUCCESS", "agent_completed"),
                                    Log("INFO", "agent_result")>>
                          \o (IF closeOK THEN <<Log("INFO", "agent_closed")>> ELSE <<>>))
               EXCEPT !.exc = ~closeOK, !.pc = ExitPc(~closeOK)]

\* what: "not_installed" the lazy import of browser_use failed, "no_key" no
\* OpenAI key, "construct_fails" / "run_fails" / "ok" how far the agent got;
\* closeOK: agent.close() returned
AgentResult(run, what, closeOK) ==
    LET called == [run EXCEPT !.agentCalls = @ + 1]
        open   == <<Log("INFO", "opening"), Log("INFO", "task")>>
    IN
    CASE what = "not_installed" ->
            [Emit(called, <<Log("ERROR", "browser_use_missing")>>) EXCEPT !.pc = ExitPc(FALSE)]
      [] what = "no_key" ->
            [Emit(called, <<Log("ERROR", "openai_key_missing")>>) EXCEPT !.pc = ExitPc(FALSE)]
      [] what = "construct_fails" ->
            [Emit(called, open \o <<Log("ERROR", "agent_failed")>>)
               EXCEPT !.exc = TRUE, !.pc = ExitPc(TRUE)]
      [] what = "run_fails" ->
            [Emit(called, open \o <<Log("SUCCESS", "agent_initialized"),
                                    Log("ERROR", "agent_failed")>>
                          \o AgentCloseEvents(closeOK))
               EXCEPT !.exc = TRUE, !.pc = ExitPc(TRUE)]
      [] what = "ok" ->
            [Emit(called, open \o <<Log("SUCCESS", "agent_initialized"),
                                    Log("SUCCESS", "agent_completed"),
                                    Log("INFO", "agent_result")>>
                          \o AgentCloseEvents(closeOK))
               EXCEPT !.pc = ExitPc(FALSE)]

AgentOutcomes == {"not_installed", "no_key", "construct_fails", "run_fails", "ok"}
\* agent.close() is reached only once the agent exists
AgentEnvUsed(what, closeOK) == what \notin {"run_fails", "ok"} => closeOK

AgentRun(r) ==
    /\ runs[r].pc = "agent"
    /\ server # "v1"
    /\ \E what \in AgentOutcomes, closeOK \in BOOLEAN :
         /\ AgentEnvUsed(what, closeOK)
         /\ Affordable(Cost(what # "ok") + Cost(~closeOK))
         /\ faults' = faults + Cost(what # "ok") + Cost(~closeOK)
         /\ runs' = [runs EXCEPT ![r] = AgentResult(@, what, closeOK)]
    /\ UNCHANGED <<config, isRunning, lastPageInfo, replies, planVars>>

(***************************************************************************)
(* run_async (spec2/executor.py 99-284).                                   *)
(***************************************************************************)

\* LaunchResult whose `except` logs the failure and does not re-raise
LaunchResultSwallowed(run, pwOK, what) ==
    LET called == [run EXCEPT !.stepCalls = @ + 1]
        open   == Log("INFO", "opening")
        failed == Log("ERROR", "browser_failed")
    IN
    IF ~pwOK
    THEN [Emit(called, <<Log("ERROR", "playwright_missing")>>) EXCEPT !.pc = ExitPc(FALSE)]
    ELSE IF what = "ok"
    THEN [Emit(called, <<open, Log("SUCCESS", "browser_started"),
                         Log("SUCCESS", "navigated")>>)
            EXCEPT !.browser = "open", !.stepIdx = 1, !.pc = "step"]
    ELSE [Emit(called, <<open, failed>>) EXCEPT !.pc = "steps_finally"]

\* lines 101-134: the early return, then start/launch/new_page/goto; an
\* exception reaches `except` (log, raise) and then `finally`
LaunchResult(run, pwOK, what) ==
    LET called == [run EXCEPT !.stepCalls = @ + 1]
        open   == Log("INFO", "opening")
        failed == Log("ERROR", "browser_failed")
    IN
    IF ~pwOK
    THEN [Emit(called, <<Log("ERROR", "playwright_missing")>>) EXCEPT !.pc = ExitPc(FALSE)]
    ELSE CASE what = "launch_fails" ->
                [Emit(called, <<open, failed>>)
                   EXCEPT !.exc = TRUE, !.pc = "steps_finally"]
           [] what = "new_page_fails" ->
                [Emit(called, <<open, failed>>)
                   EXCEPT !.exc = TRUE, !.browser = "open", !.pc = "steps_finally"]
           [] what = "goto_fails" ->
                [Emit(called, <<open, Log("SUCCESS", "browser_started"), failed>>)
                   EXCEPT !.exc = TRUE, !.browser = "open", !.pc = "steps_finally"]
           [] what = "ok" ->
                [Emit(called, <<open, Log("SUCCESS", "browser_started"),
                                Log("SUCCESS", "navigated")>>)
                   EXCEPT !.browser = "open", !.stepIdx = 1, !.pc = "step"]

LaunchOutcomes == {"launch_fails", "new_page_fails", "goto_fails", "ok"}

Launch(r) ==
    /\ runs[r].pc = "steps"
    /\ server # "v1"
    /\ \E what \in IF playwrightOK THEN LaunchOutcomes ELSE {"ok"} :
         /\ Affordable(Cost(what # "ok"))
         /\ faults' = faults + Cost(what # "ok")
         /\ runs' = [runs EXCEPT ![r] = LaunchResult(@, playwrightOK, what)]
    /\ UNCHANGED <<config, isRunning, lastPageInfo, replies, planVars>>

\* What the page does to the step's operation: the element is found, it is
\* missing (the locator times out), or the page is gone (every call raises).
PageOutcomes == {"found", "missing", "broken"}

\* 'login' / 'sign in' / 'search' / 'submit' / 'confirm' in instruction.lower()
HasWord(instruction) == instruction = "submit the form"

\* lines 150-210: the dispatch on the action; threw: an exception reached the
\* step's `except Exception`
Dispatch(step, page) ==
    CASE step.action \in {"SEARCH", "CLICK", "FILL", "SELECT", "NAVIGATE"} ->
            [threw |-> page # "found", logs |-> <<>>]
      [] step.action = "WAIT" ->
            [threw |-> page = "broken", logs |-> <<>>]
      [] step.action = "VERIFY" ->
            IF Truthy(step.target) /\ step.target # "page"
            THEN IF page = "found"
                 THEN [threw |-> FALSE, logs |-> <<Log("SUCCESS", "verified")>>]
                 ELSE IF ~Truthy(step.value)
                 THEN [threw |-> FALSE, logs |-> <<>>]
                 ELSE IF page = "broken"
                 THEN [threw |-> TRUE, logs |-> <<>>]
                 ELSE [threw |-> FALSE, logs |-> <<Log("WARNING", "verify_failed")>>]
            ELSE IF Truthy(step.value)
            THEN IF page = "broken"
                 THEN [threw |-> TRUE, logs |-> <<>>]
                 ELSE [threw |-> FALSE,
                       logs |-> <<Log(IF page = "found" THEN "SUCCESS" ELSE "WARNING",
                                      "verify_text")>>]
            ELSE [threw |-> FALSE, logs |-> <<>>]
      [] OTHER ->
            IF HasWord(step.instruction)
            THEN [threw |-> page # "found", logs |-> <<>>]
            ELSE [threw |-> FALSE, logs |-> <<Log("WARNING", "unhandled_action")>>]

\* lines 143-148 and 211-246: the step's events; the Step dict is not written
StepEvents(step, d) ==
    <<Log("INFO", "step")>>
    \o (IF Truthy(step.value) THEN <<Log("INFO", "value")>> ELSE <<>>)
    \o d.logs
    \o (IF d.threw
        THEN <<Log("ERROR", "step_error"), StepUpdate(step.id, "failed")>>
        ELSE <<Log("SUCCESS", "step_completed"), StepUpdate(step.id, "completed")>>)


\* AfterStep leaving the loop when the step threw
AfterStepAbort(run, threw) ==
    IF threw THEN [run EXCEPT !.exc = TRUE, !.pc = "steps_finally"]
    ELSE [run EXCEPT !.stepIdx = @ + 1]

\* line 246 `continue` / the end of the loop body: on to the next step
AfterStep(run, threw) == [run EXCEPT !.stepIdx = @ + 1]

StepResult(run, page) ==
    LET step == run.plan.steps[run.stepIdx]
        d    == Dispatch(step, page)
        done == [Emit(run, StepEvents(step, d))
                   EXCEPT !.attempted = Append(@, [idx |-> run.stepIdx, threw |-> d.threw])]
    IN  AfterStep(done, d.threw)

StepDispatch(r) ==
    /\ runs[r].pc = "step"
    /\ runs[r].stepIdx <= Len(runs[r].plan.steps)
    /\ \E page \in PageOutcomes :
         /\ Affordable(Cost(page # "found"))
         /\ faults' = faults + Cost(page # "found")
         /\ runs' = [runs EXCEPT ![r] = StepResult(@, page)]
    /\ UNCHANGED <<config, isRunning, lastPageInfo, replies, planVars>>

\* lines 248-265: the screenshot (best effort) and the closing log
StepsFinish(r) ==
    /\ runs[r].pc = "step"
    /\ runs[r].stepIdx > Len(runs[r].plan.steps)
    /\ \E shotOK \in BOOLEAN :
         /\ Affordable(Cost(~shotOK))
         /\ faults' = faults + Cost(~shotOK)
         /\ runs' = [runs EXCEPT ![r] =
                      [Emit(@, <<IF shotOK THEN Log("SUCCESS", "screenshot")
                                           ELSE Log("WARNING", "screenshot_failed"),
                                 Log("SUCCESS", "all_actions_done")>>)
                         EXCEPT !.pc = "steps_finally"]]
    /\ UNCHANGED <<config, isRunning, lastPageInfo, replies, planVars>>

\* lines 281-284 with the try/except taken away: a failing stop raises
FinallyResultStopRaises(run, closeOK, stopOK) ==
    LET stopped == [run EXCEPT !.driver = IF stopOK THEN "stopped" ELSE "stop_failed",
                               !.exc = run.exc \/ ~stopOK,
                               !.pc = ExitPc(run.exc \/ ~stopOK)]
    IN
    IF run.browser = "open"
    THEN IF closeOK
         THEN [Emit(stopped, <<Log("INFO", "closing_browser")>>)
                 EXCEPT !.browser = "closed", !.closeCalls = @ + 1]
         ELSE [Emit(run, <<Log("INFO", "closing_browser")>>)
                 EXCEPT !.browser = "close_failed", !.closeCalls = @ + 1,
                        !.exc = TRUE, !.pc = ExitPc(TRUE)]
    ELSE stopped

\* lines 274-284: browser.close() is not guarded, playwright.stop() is (an
\* exception of stop(), or the NameError when start() never returned, is
\* passed over); a failing close() leaves before stop() is reached
FinallyResult(run, closeOK, stopOK) ==
    LET stopped == [run EXCEPT !.driver = IF stopOK THEN "stopped" ELSE "stop_failed",
                               !.pc = ExitPc(run.exc)]
    IN
    IF run.browser = "open"
    THEN IF closeOK
         THEN [Emit(stopped, <<Log("INFO", "closing_browser")>>)
                 EXCEPT !.browser = "closed", !.closeCalls = @ + 1]
         ELSE [Emit(run, <<Log("INFO", "closing_browser")>>)
                 EXCEPT !.browser = "close_failed", !.closeCalls = @ + 1,
                        !.exc = TRUE, !.pc = ExitPc(TRUE)]
    ELSE stopped

StepsFinally(r) ==
    /\ runs[r].pc = "steps_finally"
    /\ \E closeOK \in IF runs[r].browser = "open" THEN BOOLEAN ELSE {TRUE},
          stopOK \in BOOLEAN :
         /\ ~closeOK => stopOK
         /\ Affordable(Cost(~closeOK) + Cost(~stopOK))
         /\ faults' = faults + Cost(~closeOK) + Cost(~stopOK)
         /\ runs' = [runs EXCEPT ![r] = FinallyResult(@, closeOK, stopOK)]
    /\ UNCHANGED <<config, isRunning, lastPageInfo, replies, planVars>>

(***************************************************************************)
(* web_ui.py 244-257 awaits run_with_browser_use / run_async of            *)
(* viser_core.executor, a module that is not among the sources.  The call  *)
(* is modelled by what its caller can observe: it returns or it raises,    *)
(* and it may have written 'failed' into the status of a step it was       *)
(* handed.                                                                 *)
(***************************************************************************)
ForeignResult(run, raises, marks) ==
    LET called == IF run.pc = "agent" THEN [run EXCEPT !.agentCalls = @ + 1]
                  ELSE [run EXCEPT !.stepCalls = @ + 1]
        marked == IF marks THEN [called EXCEPT !.plan.steps[1].status = "failed"]
                  ELSE called
    IN  [marked EXCEPT !.exc = raises, !.pc = ExitPc(raises)]

ForeignExecutor(r) ==
    /\ runs[r].pc \in {"agent", "steps"}
    /\ server = "v1"
    /\ \E raises \in BOOLEAN,
          marks \in IF runs[r].pc = "steps" /\ Len(runs[r].plan.steps) > 0
                    THEN BOOLEAN ELSE {FALSE} :
         /\ Affordable(Cost(raises) + Cost(marks))
         /\ faults' = faults + Cost(raises) + Cost(marks)
         /\ runs' = [runs EXCEPT ![r] = ForeignResult(@, raises, marks)]
    /\ UNCHANGED <<config, isRunning, lastPageInfo, replies, planVars>>

(***************************************************************************)
(* After the executor returned: web_ui_v2.py 268-296, web_ui.py 259-286,   *)
(* flask_server.py 365-366.                                                *)
(***************************************************************************)
\* failed = [s for s in steps if s.get('status') == 'failed']
FailedSteps(steps) == {i \in 1..Len(steps) : steps[i].status = "failed"}

OutcomeEvents(srv, plan) ==
    LET n == Len(plan.steps)
        f == Cardinality(FailedSteps(plan.steps))
    IN
    CASE srv = "flask" -> <<Log("SUCCESS", "task_done"), TaskSuccess(0)>>
      [] srv = "v2" ->
            (IF plan.execution_type = "browser_use"
             THEN <<Log("SUCCESS", "agent_done"), TaskSuccess(0)>>
             ELSE IF f = 0
             THEN <<Log("SUCCESS", "all_steps_done"), TaskSuccess(n)>>
             ELSE <<Log("WARNING", "steps_failed"), TaskWarning(n - f, f)>>)
            \o <<Ev("page_info")>>
      [] srv = "v1" ->
            IF plan.execution_type = "browser_use"
            THEN <<Log("SUCCESS", "agent_done"), TaskSuccess(0)>>
            ELSE IF f = 0
            THEN <<Log("SUCCESS", "all_steps_done"), TaskSuccess(n)>>
            ELSE <<Log("WARNING", "steps_failed"), TaskWarning(0, 0)>>

Outcome(r) ==
    /\ runs[r].pc = "outcome"
    /\ runs' = [runs EXCEPT ![r] =
                  [Emit(@, OutcomeEvents(server, @.plan)) EXCEPT !.pc = "finally"]]
    /\ lastPageInfo' = IF server = "v2" THEN "done" ELSE lastPageInfo
    /\ UNCHANGED <<config, faults, isRunning, replies, planVars>>


\* ExceptEvents that also announces the end of the run
ExceptEventsFenced(srv) ==
    CASE srv = "v2"    -> <<Log("ERROR", "task_failed"), Ev("task_error"), Ev("task_completed")>>
      [] srv = "v1"    -> <<Log("ERROR", "execution_failed"), Log("ERROR", "task_failed"),
                            Ev("task_error"), Ev("task_completed")>>
      [] srv = "flask" -> <<Log("ERROR", "automation_failed"), Ev("task_error"),
                            Ev("task_completed")>>

\* the `except Exception` of the worker: web_ui_v2.py 212-214,
\* web_ui.py 288-290 and 184-186, flask_server.py 368-371
ExceptEvents(srv) ==
    CASE srv = "v2"    -> <<Log("ERROR", "task_failed"), Ev("task_error")>>
      [] srv = "v1"    -> <<Log("ERROR", "execution_failed"), Log("ERROR", "task_failed"),
                            Ev("task_error")>>
      [] srv = "flask" -> <<Log("ERROR", "automation_failed"), Ev("task_error")>>

ExceptHandler(r) ==
    /\ runs[r].pc = "except"
    /\ runs' = [runs EXCEPT ![r] =
                  [Emit(@, ExceptEvents(server)) EXCEPT !.exc = FALSE, !.pc = "finally"]]
    /\ UNCHANGED <<config, faults, isRunning, lastPageInfo, replies, planVars>>

(***************************************************************************)
(* Spec: one server process.                                               *)
(***************************************************************************)
Servers == {"v2", "v1", "flask"}

PlanIdle ==
    /\ pin = [variant |-> "spec2", fn |-> "plan", request |-> UserRequest,
              target_url |-> "", apiErr |-> "", raw |-> <<>>]
    /\ pout = <<>>
    /\ cin = [keys |-> {}, envs |-> <<>>]
    /\ cout = <<>>

Init ==
    /\ server \in Servers
    \* only web_ui_v2 reaches spec2's run_async, the one reader of PLAYWRIGHT_OK
    /\ playwrightOK \in IF server = "v2" THEN BOOLEAN ELSE {TRUE}
    /\ coreEngineOK \in IF server = "flask" THEN BOOLEAN ELSE {TRUE}
    /\ faults = 0
    /\ isRunning = FALSE
    /\ lastPageInfo = "none"
    /\ runs = <<>>
    /\ replies = <<>>
    /\ PlanIdle

Next ==
    \/ ExecuteTask
    \/ PlanTask
    \/ \E r \in RunIds : PlanTaskBg(r)
    \/ \E r \in RunIds : WorkerStart(r)
    \/ \E r \in RunIds : PlanPhase(r)
    \/ \E r \in RunIds : AgentRun(r)
    \/ \E r \in RunIds : Launch(r)
    \/ \E r \in RunIds : StepDispatch(r)
    \/ \E r \in RunIds : StepsFinish(r)
    \/ \E r \in RunIds : StepsFinally(r)
    \/ \E r \in RunIds : ForeignExecutor(r)
    \/ \E r \in RunIds : Outcome(r)
    \/ \E r \in RunIds : ExceptHandler(r)
    \/ \E r \in RunIds : FinallyClear(r)
    \/ \E r \in RunIds : FinallyEmit(r)

Spec == Init /\ [][Next]_vars


(***************************************************************************)
(* Properties of the coordinators and executors, over the behaviours of Spec. *)
(***************************************************************************)
EventsOf(r) == runs[r].events
KindAt(r, k) == {i \in 1..Len(EventsOf(r)) : EventsOf(r)[i].kind = k}
HasKind(r, k) == KindAt(r, k) # {}
HasLog(r, level, msg) ==
    \E i \in 1..Len(EventsOf(r)) :
        /\ EventsOf(r)[i].kind = "log"
        /\ EventsOf(r)[i].tag = level
        /\ EventsOf(r)[i].msg = msg
\* a run is in flight from its acceptance until its task_completed
Completed(r) == HasKind(r, "task_completed")
\* the dry runs of plan_task are no automation runs: they drive no browser
DryRun(r) == runs[r].pc \in {"plan_queued", "plan_done"}
InFlight == {r \in RunIds : ~DryRun(r) /\ ~Completed(r)}
Threw(r) == {k \in 1..Len(runs[r].attempted) : runs[r].attempted[k].threw}
StepBased(r) == runs[r].plan.status = "planned" /\ runs[r].plan.execution_type # "browser_use"
AfterExecutor(r) == runs[r].pc \in {"finally", "completing", "done"}

(***************************************************************************)
(* C1 (as claimed): single-flight mutual exclusion; at most one accepted   *)
(* run is in flight (accepted, task_completed not yet emitted) at a time.  *)
(***************************************************************************)
C1_SingleFlight == Cardinality(InFlight) <= 1

(***************************************************************************)
(* C2: a step taken while the running flag is true accepts no automation   *)
(* run, and an execute_task request handled then only adds an 'already     *)
(* running' error for its caller: the runs (their events included), the    *)
(* flag and the page info stay as they were.  (plan_task, which starts no  *)
(* automation, answers 'missing_prompt' or starts a dry run.)              *)
(***************************************************************************)
C2_RejectionIsInert ==
    [][isRunning =>
          /\ Len(runs') > Len(runs) => runs'[Len(runs')].pc = "plan_queued"
          /\ (replies' # replies /\ replies' # Append(replies, "missing_prompt")) =>
                /\ replies' = Append(replies, "already_running")
                /\ UNCHANGED <<runs, isRunning, lastPageInfo>>]_vars

C2_Witness ==
    /\ isRunning
    /\ \E i \in 1..Len(replies) : replies[i] = "already_running"
    /\ \E r \in RunIds : runs[r].pc \notin {"queued", "done"}

(***************************************************************************)
(* C3: task_completed is emitted at most once per run, nothing of the run  *)
(* follows it, and a run that has ended has emitted it.                    *)
(***************************************************************************)
C3_CompletedFence ==
    \A r \in RunIds :
        /\ Cardinality(KindAt(r, "task_completed")) <= 1
        /\ Completed(r) => EventsOf(r)[Len(EventsOf(r))].kind = "task_completed"
        /\ runs[r].pc = "done" <=> Completed(r)

C3_Witness ==
    \E r \in RunIds :
        /\ runs[r].pc = "done"
        /\ HasKind(r, "task_error")
        /\ EventsOf(r)[Len(EventsOf(r))].kind = "task_completed"

(***************************************************************************)
(* C4 (as claimed): the first event of every run is task_started, in each  *)
(* of the three coordinators.                                              *)
(***************************************************************************)
C4_StartedFirst ==
    \A r \in RunIds :
        /\ (~DryRun(r) /\ EventsOf(r) # <<>>) => EventsOf(r)[1].kind = "task_started"
        /\ runs[r].pc = "done" => HasKind(r, "task_started")

(***************************************************************************)
(* C5: once every accepted run has emitted task_completed the running flag *)
(* is clear, so the next execute_task is not refused as already running.   *)
(***************************************************************************)
C5_GuardReleased ==
    (\A r \in RunIds : DryRun(r) \/ Completed(r)) => ~isRunning

C5_Witness ==
    /\ Len(runs) = MaxRuns
    /\ \A r \in RunIds : Completed(r)
    /\ \E r \in RunIds : runs[r].plan.status = "error"
    /\ ~isRunning

(***************************************************************************)
(* C6: after a successful launch and navigation the steps are attempted    *)
(* once each in plan order, a step that throws is followed by the next     *)
(* one, and no exception leaves the step loop.                             *)
(***************************************************************************)
C6_StepIsolation ==
    \A r \in RunIds :
        runs[r].stepIdx >= 1 =>
            /\ \A k \in 1..Len(runs[r].attempted) : runs[r].attempted[k].idx = k
            /\ Len(runs[r].attempted) = runs[r].stepIdx - 1
            /\ runs[r].pc # "step" => Len(runs[r].attempted) = Len(runs[r].plan.steps)
            /\ runs[r].pc = "steps_finally" => ~runs[r].exc

C6_Witness ==
    \E r \in RunIds :
        /\ runs[r].pc = "steps_finally"
        /\ Len(runs[r].attempted) = 2
        /\ runs[r].attempted[1].threw
        /\ HasKind(r, "step_update")

(***************************************************************************)
(* C7 (as claimed): a step_based run that went through the step loop ends  *)
(* with task_success iff no step threw, and otherwise with task_warning    *)
(* carrying the numbers of steps that threw and that did not.              *)
(***************************************************************************)
C7_AggregatedOutcome ==
    \A r \in RunIds :
        (StepBased(r) /\ runs[r].stepIdx >= 1
            /\ (HasKind(r, "task_success") \/ HasKind(r, "task_warning"))) =>
            LET n == Len(runs[r].plan.steps)
                f == Cardinality(Threw(r))
            IN  IF f = 0
                THEN HasKind(r, "task_success") /\ ~HasKind(r, "task_warning")
                ELSE /\ ~HasKind(r, "task_success")
                     /\ \E i \in KindAt(r, "task_warning") :
                            EventsOf(r)[i] = TaskWarning(n - f, f)

(***************************************************************************)
(* C8: when the browser launch or the first navigation failed, no step is  *)
(* attempted, no step_update, task_success or task_warning is emitted, and *)
(* the run emits task_error.                                               *)
(***************************************************************************)
C8_FatalBrowserFailure ==
    \A r \in RunIds :
        HasLog(r, "ERROR", "browser_failed") =>
            /\ runs[r].attempted = <<>>
            /\ ~HasKind(r, "step_update")
            /\ ~HasKind(r, "task_success")
            /\ ~HasKind(r, "task_warning")
            /\ AfterExecutor(r) => HasKind(r, "task_error")

C8_Witness ==
    \E r \in RunIds :
        /\ HasLog(r, "ERROR", "browser_failed")
        /\ HasLog(r, "SUCCESS", "browser_started")
        /\ runs[r].pc = "done"
        /\ Len(runs[r].plan.steps) = 2

(***************************************************************************)
(* C9: a run whose planning succeeded invokes exactly one executor, once:  *)
(* run_with_browser_use iff execution_type is 'browser_use', else          *)
(* run_async; a run whose planning failed invokes none.                    *)
(***************************************************************************)
C9_DispatchRule ==
    \A r \in RunIds :
        /\ runs[r].agentCalls + runs[r].stepCalls <= 1
        /\ runs[r].agentCalls = 1 => runs[r].plan.execution_type = "browser_use"
        /\ runs[r].stepCalls = 1 => StepBased(r)
        /\ (AfterExecutor(r) /\ runs[r].plan.status = "planned") =>
                runs[r].agentCalls + runs[r].stepCalls = 1
        /\ runs[r].plan.status # "planned" => runs[r].agentCalls + runs[r].stepCalls = 0

C9_Witness ==
    \E r1, r2 \in RunIds :
        /\ runs[r1].pc = "done" /\ runs[r1].agentCalls = 1
        /\ runs[r2].pc = "done" /\ runs[r2].stepCalls = 1

(***************************************************************************)
(* C18 (as claimed): every planner call of a run uses the provider the     *)
(* client requested, except a second call made after the requested         *)
(* provider's plan failed with a quota error while an alternate key was    *)
(* set; that substitution is logged before any plan_ready event.           *)
(***************************************************************************)
SubstitutionLogged(r) ==
    \E i \in 1..Len(EventsOf(r)) :
        /\ EventsOf(r)[i] = Log("INFO", "retry_with_groq")
        /\ \A j \in KindAt(r, "plan_ready") : i < j

C18_ExplicitProvider ==
    \A r \in RunIds : \A k \in 1..Len(runs[r].tried) :
        runs[r].tried[k].provider # runs[r].requested =>
            /\ k = 2
            /\ runs[r].tried[1].provider = runs[r].requested
            /\ IsQuota(runs[r].tried[1].error)
            /\ runs[r].altKey
            /\ SubstitutionLogged(r)

(***************************************************************************)
(* C19: a run calls the planner at most twice; the second call is made     *)
(* only after the first plan carried a quota error and GROQ_API_KEY was    *)
(* set; when the second plan is an error too the run ends with no          *)
(* plan_ready event, no browser and no executor.                           *)
(***************************************************************************)
C19_OneShotRetry ==
    \A r \in RunIds :
        /\ Len(runs[r].tried) <= 2
        /\ Len(runs[r].tried) = 2 =>
              /\ IsQuota(runs[r].tried[1].error)
              /\ runs[r].altKey
              /\ SubstitutionLogged(r)
        /\ (Len(runs[r].tried) = 2 /\ Truthy(runs[r].tried[2].error)) =>
              /\ ~HasKind(r, "plan_ready")
              /\ runs[r].browser = "none"
              /\ runs[r].agentCalls + runs[r].stepCalls = 0
              /\ runs[r].pc \in {"finally", "completing", "done", "plan_done"}

\* an execute_task run and a dry run both retried with groq; the first got
\* a second error plan and has ended, the second got a plan and published it
C19_Witness ==
    \E r1, r2 \in RunIds :
        /\ runs[r1].pc = "done"
        /\ Len(runs[r1].tried) = 2
        /\ Truthy(runs[r1].tried[2].error)
        /\ runs[r2].pc = "plan_done"
        /\ Len(runs[r2].tried) = 1
        /\ HasKind(r2, "plan_ready")

(***************************************************************************)
(* C20 (as claimed): an execute_task run ends without having invoked an    *)
(* executor only when the planner could not be constructed; a run whose    *)
(* plan came back with status "error" still executes the plan's payload.   *)
(***************************************************************************)
C20_PropagationPolicy ==
    \A r \in RunIds :
        (runs[r].pc = "done" /\ runs[r].agentCalls + runs[r].stepCalls = 0)
            => runs[r].plan.status = "none"

(***************************************************************************)
(* C22 (as claimed): every attempted step has exactly one step_update,     *)
(* 'completed' if its dispatch returned and 'failed' if it threw, and the  *)
(* step's own status in the plan has been set to that same value.          *)
(***************************************************************************)
StepUpdates(r) ==
    SelectSeq(EventsOf(r), LAMBDA e : e.kind = "step_update")

C22_StepBookkeeping ==
    \A r \in RunIds :
        /\ Len(StepUpdates(r)) = Len(runs[r].attempted)
        /\ \A k \in 1..Len(runs[r].attempted) :
              LET a      == runs[r].attempted[k]
                  status == IF a.threw THEN "failed" ELSE "completed"
              IN  /\ StepUpdates(r)[k].tag = status
                  /\ runs[r].plan.steps[a.idx].status = status

(***************************************************************************)
(* C23: once run_async has been left, a browser that was launched has had  *)
(* close() called exactly once (and none was called without a browser),    *)
(* and run_async leaves by an exception exactly when its body raised or    *)
(* close() did: how playwright.stop() ends changes nothing.                *)
(***************************************************************************)
LeftRunAsync(r) ==
    /\ server # "v1"
    /\ runs[r].stepCalls = 1
    /\ runs[r].pc \notin {"step", "steps_finally"}

C23_BrowserCleanup ==
    \A r \in RunIds :
        /\ runs[r].closeCalls <= 1
        /\ LeftRunAsync(r) =>
              /\ runs[r].browser # "open"
              /\ runs[r].closeCalls = (IF runs[r].browser = "none" THEN 0 ELSE 1)
        /\ (LeftRunAsync(r) /\ runs[r].pc \in {"outcome", "except"}) =>
              (runs[r].pc = "except"
                  <=> \/ HasLog(r, "ERROR", "browser_failed")
                      \/ runs[r].browser = "close_failed")

\* all steps were attempted, the browser was closed, stopping the driver
\* failed, and the run went on to report its outcome
C23_Witness ==
    \E r \in RunIds :
        /\ runs[r].pc = "done"
        /\ runs[r].browser = "closed"
        /\ runs[r].closeCalls = 1
        /\ runs[r].driver = "stop_failed"
        /\ Len(runs[r].attempted) = Len(runs[r].plan.steps)
        /\ ~HasKind(r, "task_error")

(***************************************************************************)
(* C24: once run_with_browser_use has been left, agent.close() was         *)
(* attempted exactly when the agent had been constructed, its failure is   *)
(* a WARNING log, and the function leaves by an exception exactly when     *)
(* the agent's construction or agent.run() raised.                         *)
(***************************************************************************)
LeftAgentRun(r) ==
    /\ server # "v1"
    /\ runs[r].agentCalls = 1
    /\ runs[r].pc # "agent"

CloseAttempts(r) ==
    {i \in 1..Len(EventsOf(r)) :
        \/ EventsOf(r)[i] = Log("INFO", "agent_closed")
        \/ EventsOf(r)[i] = Log("WARNING", "agent_close_failed")}

C24_AgentCleanup ==
    \A r \in RunIds :
        /\ LeftAgentRun(r) =>
              Cardinality(CloseAttempts(r)) =
                  (IF HasLog(r, "SUCCESS", "agent_initialized") THEN 1 ELSE 0)
        /\ (LeftAgentRun(r) /\ runs[r].pc \in {"outcome", "except"}) =>
              (runs[r].pc = "except" <=> HasLog(r, "ERROR", "agent_failed"))

\* agent.run() returned, agent.close() raised, and the run ended in success
C24_Witness ==
    \E r \in RunIds :
        /\ runs[r].pc = "done"
        /\ runs[r].agentCalls = 1
        /\ HasLog(r, "SUCCESS", "agent_completed")
        /\ HasLog(r, "WARNING", "agent_close_failed")
        /\ HasKind(r, "task_success")

(***************************************************************************)
(* C27 (as claimed): a VERIFY step never fails: the step_update of an      *)
(* attempted VERIFY step is never 'failed', whatever the page did.         *)
(***************************************************************************)
C27_VerifyNeverFails ==
    \A r \in RunIds :
        \A k \in 1..Len(runs[r].attempted) :
            LET a == runs[r].attempted[k]
            IN  (k <= Len(StepUpdates(r)) /\ runs[r].plan.steps[a.idx].action = "VERIFY")
                    => StepUpdates(r)[k].tag # "failed"

(***************************************************************************)
(* C28 (as claimed): in web_ui_v2, while an accepted run has not emitted   *)
(* task_completed, _is_running is true.                                    *)
(***************************************************************************)
C28_RunningWhileInFlight ==
    server = "v2" => \A r \in RunIds : ~Completed(r) => isRunning

(***************************************************************************)
(* C29 (as claimed): in web_ui_v2, task_success is emitted only for a run  *)
(* whose executor drove a browser: run_async launched one, or the          *)
(* browser-use agent ran.                                                  *)
(***************************************************************************)
C29_SuccessMeansBrowserRan ==
    server = "v2" =>
        \A r \in RunIds :
            HasKind(r, "task_success") =>
                \/ runs[r].browser # "none"
                \/ HasLog(r, "SUCCESS", "agent_completed")

(***************************************************************************)
(* C30: in web_ui_v2 an accepted run emits at most one of task_success,    *)
(* task_warning and task_error, and once it has emitted task_completed     *)
(* exactly one, after its task_started and before its task_completed.      *)
(***************************************************************************)
Verdicts(r) ==
    KindAt(r, "task_success") \cup KindAt(r, "task_warning") \cup KindAt(r, "task_error")

C30_OneVerdictPerRun ==
    server = "v2" =>
        \A r \in RunIds :
            /\ Cardinality(Verdicts(r)) <= 1
            /\ KindAt(r, "task_started") = {1}
            /\ Completed(r) =>
                  /\ Cardinality(Verdicts(r)) = 1
                  /\ KindAt(r, "task_completed") = {Len(EventsOf(r))}

\* two runs have completed: one whose plan was an error plan by task_error,
\* the other by task_success
C30_Witness ==
    /\ server = "v2"
    /\ \E r \in RunIds : /\ Completed(r)
                         /\ HasKind(r, "task_error")
                         /\ runs[r].plan.status = "error"
    /\ \E r \in RunIds : Completed(r) /\ HasKind(r, "task_success")

=============================================================================
